---- MODULE Spec2Model ----
(***************************************************************************)
(* The coordination engine of the multi-agent research system              *)
(* (orchestrator.py, agent.py, search_tool.py).                            *)
(*                                                                         *)
(* A text (a Python str the code inspects, joins or stores) is a sequence  *)
(* of one-character strings.  A prompt built from an f-string template is  *)
(* a record naming the template and holding the values substituted into    *)
(* it.  One action is one call of an engine method by the driver; the      *)
(* answers of the model gateway (ollama.chat) and of the retrieval service *)
(* are inputs of the action.                                               *)
(***************************************************************************)
EXTENDS Integers, Sequences, FiniteSets, TLC

VARIABLES agents, discussion_log, research_topic, satisfaction_scores,
          search_history, op, result, gateway, calls, failures

vars == <<agents, discussion_log, research_topic, satisfaction_scores,
          search_history, op, result, gateway, calls, failures>>

(***************************************************************************)
(* Bounds of the model.                                                    *)
(***************************************************************************)
MaxAgents == 2
MaxRounds == 4
MaxQueries == 1
MaxCalls == 2
MaxFailures == 1
MaxTokenLen == 3
MaxContext == 15
MaxRoster == 10

(***************************************************************************)
(* Program constants.                                                      *)
(***************************************************************************)
TARGET_SATISFACTION == 8
NEUTRAL_SCORE == 5
MIN_SCORE == 1
MAX_SCORE == 10
CONTEXT_WINDOW == 10
BRAINSTORM_WINDOW == 5
DISCUSSION_WINDOW == 3
INITIAL_PROMPT_CHARS == 658

(***************************************************************************)
(* Inputs of the driver and of the external services.                      *)
(***************************************************************************)
Personas ==
  { [name |-> <<"A">>, specialty |-> <<"s">>],
    [name |-> <<"B">>, specialty |-> <<"t">>] }

\* a team registered in a fixed order, as initialize_default_team does
Cast ==
  << [name |-> <<"A">>, specialty |-> <<"s">>],
     [name |-> <<"B">>, specialty |-> <<"t">>],
     [name |-> <<"C">>, specialty |-> <<"u">>],
     [name |-> <<"D">>, specialty |-> <<"v">>],
     [name |-> <<"E">>, specialty |-> <<"w">>] >>

Topics == { <<"X">>, <<"Y">> }

DiscussionTopics == { <<"Y">> }

Queries == { <<"q">> }

DecimalDigits == <<"0", "1", "2", "3", "4", "5", "6", "7", "8", "9">>

RECURSIVE NumberText(_)
\* str(k) for k >= 0
NumberText(k) ==
  IF k < 10 THEN <<DecimalDigits[k + 1]>>
  ELSE NumberText(k \div 10) \o <<DecimalDigits[(k % 10) + 1]>>

\* the gateway's text for the k-th call of the session in the content phases:
\* every call is answered by a different text
Replies(k) == { <<"r">> \o NumberText(k) }

\* the gateway's texts for a rating request
Ratings(k) ==
  { <<"9">>, <<"6">>, <<"1", "5">>, <<"g", "a", "r", "b", "a", "g", "e">>, <<>> }

\* the characters of the short rating texts; "sup2" is the character U+00B2
ParseAlphabet == { "0", "1", "/", " ", "sup2" }

\* every text of at most MaxTokenLen characters of ParseAlphabet, and three
\* more
ShortTexts ==
  UNION { [1..n -> ParseAlphabet] : n \in 0..MaxTokenLen }
    \cup { <<"1", "5">>, <<"8", "/", "1", "0">>,
           <<"g", "a", "r", "b", "a", "g", "e">> }

\* a context list of n earlier messages, as structured_discussion builds it
ContextOf(n) ==
  [j \in 1..n |-> [role |-> "assistant", content |-> <<"m">> \o NumberText(j)]]

\* the context lists a caller passes: none, one message, a full window, one
\* message more than the window, and MaxContext messages
Contexts ==
  { ContextOf(n) : n \in {0, 1, CONTEXT_WINDOW, CONTEXT_WINDOW + 1, MaxContext} }

\* the texts of datetime.now().isoformat() at two moments
Timestamps == { <<"t", "1">>, <<"t", "2">> }

\* the prompts a caller passes
Prompts == { <<"p">>, <<"q">> }

\* the gateway's texts for a request to rewrite a system prompt
Rewrites(k) == { <<"p">> \o NumberText(k), <<" ", "p", "\n">>, <<>> }

SearchOutcomes == { "ok", "status", "exception" }

\* the smaller input sets of the specification of the whole engine
BriefRatings(k) == { <<"9">>, <<"1", "5">>, <<"g", "a", "r", "b", "a", "g", "e">> }

BriefRewrites(k) == { <<" ", "p", "\n">> }

\* two rating texts: one above the scale and one without a number
TwoRatings(k) == { <<"1", "5">>, <<"g", "a", "r", "b", "a", "g", "e">> }

BriefOutcomes == { "ok", "status" }

\* the gateway's texts for a rating request when the last rating of the
\* session may be any short text
ParseRatings(k) == IF k = MaxCalls THEN ShortTexts ELSE BriefRatings(k)

\* the texts the gateway may give to the k-th call of the session, for each
\* of the input sets above
TextsOf(texts, k) ==
  CASE texts = "Replies" -> Replies(k)
    [] texts = "Ratings" -> Ratings(k)
    [] texts = "BriefRatings" -> BriefRatings(k)
    [] texts = "TwoRatings" -> TwoRatings(k)
    [] texts = "ParseRatings" -> ParseRatings(k)
    [] texts = "Rewrites" -> Rewrites(k)
    [] texts = "BriefRewrites" -> BriefRewrites(k)

(***************************************************************************)
(* Python helpers.                                                         *)
(***************************************************************************)
\* a variant that keeps the first n items, s[:n]
FirstN(s, n) == SubSeq(s, 1, IF Len(s) > n THEN n ELSE Len(s))

\* s[-n:] for n > 0
LastN(s, n) == SubSeq(s, IF Len(s) > n THEN Len(s) - n + 1 ELSE 1, Len(s))

RECURSIVE JoinLines(_)
\* chr(10).join(items) for a list of str
JoinLines(items) ==
  IF items = <<>> THEN <<>>
  ELSE IF Len(items) = 1 THEN items[1]
  ELSE items[1] \o <<"\n">> \o JoinLines(Tail(items))

\* f"[{agent.name}]: {response}"
FormatMessage(name, response) == <<"[">> \o name \o <<"]", ":", " ">> \o response

\* f"Error generating response: {str(e)}" for an exception whose str is empty
ErrorMarker ==
  <<"E", "r", "r", "o", "r", " ", "g", "e", "n", "e", "r", "a", "t", "i", "n", "g",
    " ", "r", "e", "s", "p", "o", "n", "s", "e", ":", " ">>

(***************************************************************************)
(* The gateway's answer to one ollama.chat call: a text, or an exception.  *)
(***************************************************************************)
Answer(text) == [ok |-> TRUE, text |-> text]

Down == [ok |-> FALSE, text |-> <<>>]

NumDown(o) == Cardinality({k \in DOMAIN o : ~o[k].ok})

\* the driver starts an operation that calls the gateway only while the
\* session has made fewer than MaxCalls gateway calls
MayCall(n) == n = 0 \/ calls < MaxCalls

RECURSIVE AnswerLists(_, _, _)
\* the lists of answers to the calls k..Len(texts) with at most f failures,
\* where texts[k] holds the texts the gateway may give to call k
AnswerLists(k, texts, f) ==
  IF k > Len(texts) THEN { <<>> }
  ELSE { <<Answer(t)>> \o rest : t \in texts[k], rest \in AnswerLists(k + 1, texts, f) }
       \cup (IF f > 0
             THEN { <<Down>> \o rest : rest \in AnswerLists(k + 1, texts, f - 1) }
             ELSE {})

\* the answers to the n gateway calls of one operation: the k-th call of the
\* session is answered by a text of Texts(k) or fails, and a session sees at
\* most MaxFailures failures
AnswersTo(n, texts) ==
  AnswerLists(1, [k \in 1..n |-> TextsOf(texts, calls + k)], MaxFailures - failures)

(***************************************************************************)
(* ResearchAgent                                                           *)
(***************************************************************************)
\* ResearchAgent._create_initial_prompt
InitialPrompt(name, specialty) ==
  [template |-> "initial", name |-> name, specialty |-> specialty]

\* ResearchAgent.__init__
NewAgent(name, specialty) ==
  [name |-> name, specialty |-> specialty,
   conversation_history |-> <<>>, research_notes |-> <<>>,
   system_prompt |-> InitialPrompt(name, specialty),
   improvement_count |-> 0]

\* a variant that records the failure marker in the history as well
GenerateResponseAlways(agent, prompt, context, answer) ==
  LET window == IF context # <<>> THEN LastN(context, CONTEXT_WINDOW) ELSE <<>>
      response == IF answer.ok THEN answer.text ELSE ErrorMarker
      messages == <<[role |-> "system", content |-> agent.system_prompt]>>
                    \o window \o <<[role |-> "user", content |-> prompt]>>
      request == [system |-> agent.system_prompt, context |-> window,
                  prompt |-> prompt, name |-> agent.name, ok |-> answer.ok,
                  response |-> response, messages |-> messages]
  IN  [agent |-> [agent EXCEPT !.conversation_history =
                    Append(@, [prompt |-> prompt, response |-> response])],
       response |-> response,
       call |-> request]

\* ResearchAgent.generate_response: the request sent, the text returned and
\* the agent afterwards; the record appended to conversation_history is kept
\* without its timestamp (datetime.now())
GenerateResponse(agent, prompt, context, answer) ==
  LET window == IF context # <<>> THEN LastN(context, CONTEXT_WINDOW) ELSE <<>>
      response == IF answer.ok THEN answer.text ELSE ErrorMarker
      messages == <<[role |-> "system", content |-> agent.system_prompt]>>
                    \o window \o <<[role |-> "user", content |-> prompt]>>
      request == [system |-> agent.system_prompt, context |-> window,
                  prompt |-> prompt, name |-> agent.name, ok |-> answer.ok,
                  response |-> response, messages |-> messages]
  IN  IF answer.ok
      THEN [agent |-> [agent EXCEPT !.conversation_history =
                         Append(@, [prompt |-> prompt, response |-> answer.text])],
            response |-> response,
            call |-> request]
      ELSE [agent |-> agent, response |-> response, call |-> request]

(***************************************************************************)
(* ResearchOrchestrator                                                    *)
(***************************************************************************)
Init ==
  /\ agents = <<>>
  /\ discussion_log = <<>>
  /\ research_topic = <<>>
  /\ satisfaction_scores = <<>>
  /\ search_history = <<>>
  /\ op = [name |-> "init"]
  /\ result = [raised |-> "none"]
  /\ gateway = <<>>
  /\ calls = 0
  /\ failures = 0

\* a variant that inserts the entry at the head of the log
LogAppendFront(log, entry) == <<entry>> \o log

\* self.discussion_log.append(entry)
LogAppend(log, entry) == Append(log, entry)

\* a variant that rates only a name the table already holds
SetScoreKnown(scores, name, score) ==
  [k \in DOMAIN scores |-> IF k = name THEN score ELSE scores[k]]

\* the dict satisfaction_scores with scores[name] = score
SetScore(scores, name, score) ==
  [k \in DOMAIN scores \cup {name} |-> IF k = name THEN score ELSE scores[k]]

\* a variant that keeps the score a name already has
RegisterAgentKeepingScore(name, specialty) ==
  /\ agents' = Append(agents, NewAgent(name, specialty))
  /\ satisfaction_scores' =
       IF name \in DOMAIN satisfaction_scores THEN satisfaction_scores
       ELSE SetScore(satisfaction_scores, name, NEUTRAL_SCORE)
  /\ op' = [name |-> "add_agent", agent |-> name]
  /\ result' = [raised |-> "none"]
  /\ gateway' = <<>>
  /\ UNCHANGED <<discussion_log, research_topic, search_history, calls, failures>>

\* ResearchOrchestrator.add_agent, lines 29-34
RegisterAgent(name, specialty) ==
  /\ agents' = Append(agents, NewAgent(name, specialty))
  /\ satisfaction_scores' = SetScore(satisfaction_scores, name, NEUTRAL_SCORE)
  /\ op' = [name |-> "add_agent", agent |-> name]
  /\ result' = [raised |-> "none"]
  /\ gateway' = <<>>
  /\ UNCHANGED <<discussion_log, research_topic, search_history, calls, failures>>

\* ResearchOrchestrator.add_agent called while the roster has fewer than
\* MaxAgents agents
AddAgent(name, specialty) ==
  /\ Len(agents) < MaxAgents
  /\ RegisterAgent(name, specialty)

RECURSIVE RegisterAll(_, _, _)
\* the roster and the scores after add_agent for the members i.. of team
RegisterAll(st, team, i) ==
  IF i > Len(team) THEN st
  ELSE RegisterAll(
         [agents |-> Append(st.agents, NewAgent(team[i].name, team[i].specialty)),
          scores |-> SetScore(st.scores, team[i].name, NEUTRAL_SCORE)],
         team, i + 1)

\* ResearchOrchestrator.initialize_default_team: add_agent for each of the
\* five members of the default team, while the roster stays within MaxRoster
InitializeDefaultTeam ==
  /\ Len(agents) + Len(Cast) <= MaxRoster
  /\ LET st == RegisterAll([agents |-> agents, scores |-> satisfaction_scores],
                           Cast, 1)
     IN  /\ agents' = st.agents
         /\ satisfaction_scores' = st.scores
  /\ op' = [name |-> "initialize_default_team"]
  /\ result' = [raised |-> "none"]
  /\ gateway' = <<>>
  /\ UNCHANGED <<discussion_log, research_topic, search_history, calls, failures>>

\* one call agents[i].generate_response(prompt, context) by a caller
Respond(i, prompt, context, texts) ==
  /\ i \in DOMAIN agents
  /\ MayCall(1)
  /\ \E o \in AnswersTo(1, texts) :
       LET g == GenerateResponse(agents[i], prompt, context, o[1])
       IN  /\ agents' = [agents EXCEPT ![i] = g.agent]
           /\ gateway' = <<g.call>>
           /\ result' = [raised |-> "none", value |-> g.response]
           /\ calls' = calls + 1
           /\ failures' = failures + NumDown(o)
  /\ op' = [name |-> "generate_response", agent |-> i, prompt |-> prompt,
            context |-> context]
  /\ UNCHANGED <<discussion_log, research_topic, satisfaction_scores, search_history>>

\* a variant that starts the evaluation afresh when the topic changes
SetResearchTopicAfresh(topic) ==
  /\ research_topic' = topic
  /\ satisfaction_scores' =
       IF topic = research_topic THEN satisfaction_scores
       ELSE [k \in DOMAIN satisfaction_scores |-> NEUTRAL_SCORE]
  /\ op' = [name |-> "set_research_topic", topic |-> topic]
  /\ result' = [raised |-> "none"]
  /\ gateway' = <<>>
  /\ UNCHANGED <<agents, discussion_log, search_history, calls, failures>>

\* ResearchOrchestrator.set_research_topic
SetResearchTopic(topic) ==
  /\ research_topic' = topic
  /\ op' = [name |-> "set_research_topic", topic |-> topic]
  /\ result' = [raised |-> "none"]
  /\ gateway' = <<>>
  /\ UNCHANGED <<agents, discussion_log, satisfaction_scores, search_history,
                 calls, failures>>

\* the prompt of conduct_brainstorm_session, lines 58-66
BrainstormPrompt(topic, round_num, rounds, brainstorm_results, specialty) ==
  [template |-> "brainstorm", topic |-> topic, round |-> round_num + 1,
   rounds |-> rounds, previous |-> brainstorm_results # <<>>,
   history |-> IF brainstorm_results # <<>>
               THEN JoinLines(LastN(brainstorm_results, BRAINSTORM_WINDOW))
               ELSE <<>>,
   specialty |-> specialty]

\* a variant of the entry that records the loop's 0-based round index
BrainstormEntryZeroBased(round_num, name, response) ==
  [round |-> round_num, agent |-> name, type |-> "brainstorm",
   content |-> response]

\* the transcript entry of lines 71-76
BrainstormEntry(round_num, name, response) ==
  [round |-> round_num + 1, agent |-> name, type |-> "brainstorm",
   content |-> response]

RECURSIVE BrainstormAgents(_, _, _, _, _)
\* a variant of the loop that a failed gateway call ends: the failure marker
\* is neither logged nor returned, and the rest of the round is skipped
BrainstormAgentsAbort(st, round_num, rounds, i, o) ==
  IF i > Len(st.agents) THEN st
  ELSE
    LET agent == st.agents[i]
        prompt == BrainstormPrompt(research_topic, round_num, rounds,
                                   st.brainstorm_results, agent.specialty)
        g == GenerateResponse(agent, prompt, <<>>, o[Len(st.gateway) + 1])
    IN  IF ~g.call.ok THEN [st EXCEPT !.gateway = Append(@, g.call)]
        ELSE BrainstormAgents(
               [st EXCEPT !.agents[i] = g.agent,
                          !.round_ideas = Append(@, FormatMessage(agent.name, g.response)),
                          !.log = LogAppend(@, BrainstormEntry(round_num, agent.name, g.response)),
                          !.gateway = Append(@, g.call)],
               round_num, rounds, i + 1, o)

\* a variant of the loop in which an idea is visible to the agents that
\* follow in the same round
BrainstormAgentsStaged(st, round_num, rounds, i, o) ==
  IF i > Len(st.agents) THEN st
  ELSE
    LET agent == st.agents[i]
        prompt == BrainstormPrompt(research_topic, round_num, rounds,
                                   st.brainstorm_results \o st.round_ideas,
                                   agent.specialty)
        g == GenerateResponse(agent, prompt, <<>>, o[Len(st.gateway) + 1])
    IN  BrainstormAgents(
          [st EXCEPT !.agents[i] = g.agent,
                     !.round_ideas = Append(@, FormatMessage(agent.name, g.response)),
                     !.log = LogAppend(@, BrainstormEntry(round_num, agent.name, g.response)),
                     !.gateway = Append(@, g.call)],
          round_num, rounds, i + 1, o)

\* the loop over self.agents of lines 57-76, from the agent at index i on
BrainstormAgents(st, round_num, rounds, i, o) ==
  IF i > Len(st.agents) THEN st
  ELSE
    LET agent == st.agents[i]
        prompt == BrainstormPrompt(research_topic, round_num, rounds,
                                   st.brainstorm_results, agent.specialty)
        g == GenerateResponse(agent, prompt, <<>>, o[Len(st.gateway) + 1])
    IN  BrainstormAgents(
          [st EXCEPT !.agents[i] = g.agent,
                     !.round_ideas = Append(@, FormatMessage(agent.name, g.response)),
                     !.log = LogAppend(@, BrainstormEntry(round_num, agent.name, g.response)),
                     !.gateway = Append(@, g.call)],
          round_num, rounds, i + 1, o)

RECURSIVE BrainstormRounds(_, _, _, _)
\* the loop over range(rounds) of lines 54-78, from round_num on
BrainstormRounds(st, round_num, rounds, o) ==
  IF round_num >= rounds THEN st
  ELSE
    LET r == BrainstormAgents([st EXCEPT !.round_ideas = <<>>], round_num, rounds, 1, o)
    IN  BrainstormRounds([r EXCEPT !.brainstorm_results = @ \o r.round_ideas],
                         round_num + 1, rounds, o)

\* a variant that resumes from the brainstorm ideas already in the transcript
ConductBrainstormSessionResumed(rounds, texts) ==
  /\ MayCall(Len(agents) * rounds)
  /\ \E o \in AnswersTo(Len(agents) * rounds, texts) :
       LET earlier == SelectSeq(discussion_log, LAMBDA e : e.type = "brainstorm")
           st == BrainstormRounds(
                   [agents |-> agents, log |-> discussion_log,
                    brainstorm_results |->
                      [j \in DOMAIN earlier |->
                         FormatMessage(earlier[j].agent, earlier[j].content)],
                    round_ideas |-> <<>>,
                    gateway |-> <<>>], 0, rounds, o)
       IN  /\ agents' = st.agents
           /\ discussion_log' = st.log
           /\ gateway' = st.gateway
           /\ result' = [raised |-> "none", value |-> st.brainstorm_results]
           /\ calls' = calls + Len(st.gateway)
           /\ failures' = failures + NumDown(o)
  /\ op' = [name |-> "conduct_brainstorm_session", rounds |-> rounds]
  /\ UNCHANGED <<research_topic, satisfaction_scores, search_history>>

\* ResearchOrchestrator.conduct_brainstorm_session
ConductBrainstormSession(rounds, texts) ==
  /\ MayCall(Len(agents) * rounds)
  /\ \E o \in AnswersTo(Len(agents) * rounds, texts) :
       LET st == BrainstormRounds(
                   [agents |-> agents, log |-> discussion_log,
                    brainstorm_results |-> <<>>, round_ideas |-> <<>>,
                    gateway |-> <<>>], 0, rounds, o)
       IN  /\ agents' = st.agents
           /\ discussion_log' = st.log
           /\ gateway' = st.gateway
           /\ result' = [raised |-> "none", value |-> st.brainstorm_results]
           /\ calls' = calls + Len(st.gateway)
           /\ failures' = failures + NumDown(o)
  /\ op' = [name |-> "conduct_brainstorm_session", rounds |-> rounds]
  /\ UNCHANGED <<research_topic, satisfaction_scores, search_history>>

\* the raw retrieval results of ResearchSearch.search_arxiv, lines 50-81
SearchResults(outcome) ==
  IF outcome = "ok"
  THEN << [title |-> "arXiv paper", summary |-> "Paper summary from arXiv",
           url |-> "https://arxiv.org/", source |-> "arXiv"] >>
  ELSE IF outcome = "status"
  THEN << [error |-> "Search failed with status"] >>
  ELSE << [error |-> "Search error"] >>

\* the prompt of conduct_research_phase, lines 97-103
AnalysisPrompt(query, results, topic) ==
  [template |-> "analysis", query |-> query, results |-> results, topic |-> topic]

\* f"Search: {query}\nFindings: {analysis}"
ResearchNote(query, analysis) ==
  <<"S", "e", "a", "r", "c", "h", ":", " ">> \o query
    \o <<"\n", "F", "i", "n", "d", "i", "n", "g", "s", ":", " ">> \o analysis

\* ResearchAgent.add_research_note
AddResearchNote(agent, note) ==
  [agent EXCEPT !.research_notes = Append(@, [note |-> note])]

\* a variant of the entry that names the source searched instead of the agent
ResearchEntryBySource(name, query, analysis) ==
  [agent |-> <<"a", "r", "x", "i", "v">>, type |-> "research", query |-> query,
   analysis |-> analysis]

\* the transcript entry of lines 108-113
ResearchEntry(name, query, analysis) ==
  [agent |-> name, type |-> "research", query |-> query, analysis |-> analysis]

\* search_results[query] = results
SetResults(search_results, query, results) ==
  [k \in DOMAIN search_results \cup {query} |->
     IF k = query THEN results ELSE search_results[k]]

RECURSIVE ResearchQueries(_, _, _, _, _)
\* a variant of the loop that assigns the queries to the agents in turn
ResearchQueriesInTurn(st, search_queries, q, found, o) ==
  IF q > Len(search_queries) THEN st
  ELSE IF st.agents = <<>> THEN [st EXCEPT !.raised = "IndexError"]
  ELSE
    LET i == ((q - 1) % Len(st.agents)) + 1
        agent == st.agents[i]
        query == search_queries[q]
        results == SearchResults(found[q])
        g == GenerateResponse(agent, AnalysisPrompt(query, results, research_topic),
                              <<>>, o[q])
    IN  ResearchQueries(
          [st EXCEPT !.agents[i] = AddResearchNote(g.agent, ResearchNote(query, g.response)),
                     !.search_results = SetResults(@, query, results),
                     !.searches = IF found[q] = "ok"
                                  THEN Append(@, [query |-> query, source |-> "arxiv"])
                                  ELSE @,
                     !.log = LogAppend(@, ResearchEntry(agent.name, query, g.response)),
                     !.gateway = Append(@, g.call)],
          search_queries, q + 1, found, o)

\* the loop over search_queries of lines 88-113, from the query at index q on
ResearchQueries(st, search_queries, q, found, o) ==
  IF q > Len(search_queries) THEN st
  ELSE IF st.agents = <<>> THEN [st EXCEPT !.raised = "IndexError"]
  ELSE
    LET agent == st.agents[1]
        query == search_queries[q]
        results == SearchResults(found[q])
        g == GenerateResponse(agent, AnalysisPrompt(query, results, research_topic),
                              <<>>, o[q])
    IN  ResearchQueries(
          [st EXCEPT !.agents[1] = AddResearchNote(g.agent, ResearchNote(query, g.response)),
                     !.search_results = SetResults(@, query, results),
                     !.searches = IF found[q] = "ok"
                                  THEN Append(@, [query |-> query, source |-> "arxiv"])
                                  ELSE @,
                     !.log = LogAppend(@, ResearchEntry(agent.name, query, g.response)),
                     !.gateway = Append(@, g.call)],
          search_queries, q + 1, found, o)

\* the lists of queries the driver may pass
QueryLists == UNION { [1..n -> Queries] : n \in 0..MaxQueries }

\* lists of up to two queries: none, one, two different ones in both orders,
\* and the same query twice
ResearchLists ==
  { <<>>, << <<"q">> >>, << <<"q">>, <<"k">> >>, << <<"k">>, <<"q">> >>,
    << <<"q">>, <<"q">> >> }

\* the number of gateway calls conduct_research_phase makes
ResearchCalls(n, search_queries) == IF n = 0 THEN 0 ELSE Len(search_queries)

\* ResearchOrchestrator.conduct_research_phase
ConductResearchPhase(search_queries, outcomes, texts) ==
  /\ MayCall(ResearchCalls(Len(agents), search_queries))
  /\ \E found \in [1..Len(search_queries) -> outcomes] :
     \E o \in AnswersTo(ResearchCalls(Len(agents), search_queries), texts) :
       LET st == ResearchQueries(
                   [agents |-> agents, log |-> discussion_log, search_results |-> <<>>,
                    searches |-> search_history, gateway |-> <<>>, raised |-> "none"],
                   search_queries, 1, found, o)
       IN  /\ agents' = st.agents
           /\ discussion_log' = st.log
           /\ search_history' = st.searches
           /\ gateway' = st.gateway
           /\ result' = IF st.raised = "none"
                        THEN [raised |-> "none", value |-> st.search_results]
                        ELSE [raised |-> st.raised]
           /\ calls' = calls + Len(st.gateway)
           /\ failures' = failures + NumDown(o)
  /\ op' = [name |-> "conduct_research_phase", queries |-> search_queries]
  /\ UNCHANGED <<research_topic, satisfaction_scores>>

\* chr(10).join(context[-3:]) at line 132: every item of context is the dict
\* appended at line 141, and str.join raises TypeError on an item that is no str
JoinContextRaises(context) == LastN(context, DISCUSSION_WINDOW) # <<>>

\* the prompt of structured_discussion, lines 126-135
DiscussionPrompt(topic, round_num, rounds, context, specialty) ==
  IF context # <<>> /\ JoinContextRaises(context)
  THEN [raised |-> "TypeError"]
  ELSE [raised |-> "none", template |-> "discussion", topic |-> topic,
        round |-> round_num + 1, rounds |-> rounds, context |-> research_topic,
        recent |-> context # <<>>, history |-> <<>>, specialty |-> specialty]

\* the transcript entry of lines 143-149
DiscussionEntry(round_num, name, topic, response) ==
  [round |-> round_num + 1, agent |-> name, type |-> "discussion",
   topic |-> topic, content |-> response]

RECURSIVE DiscussionAgents(_, _, _, _, _, _)
\* the loop over self.agents of lines 125-149, from the agent at index i on
DiscussionAgents(st, topic, round_num, rounds, i, o) ==
  IF i > Len(st.agents) \/ st.raised # "none" THEN st
  ELSE
    LET agent == st.agents[i]
        prompt == DiscussionPrompt(topic, round_num, rounds, st.context, agent.specialty)
    IN  IF prompt.raised # "none" THEN [st EXCEPT !.raised = prompt.raised]
        ELSE
          LET g == GenerateResponse(agent, prompt, st.context, o[Len(st.gateway) + 1])
              message == FormatMessage(agent.name, g.response)
          IN  DiscussionAgents(
                [st EXCEPT !.agents[i] = g.agent,
                           !.discussion = Append(@, message),
                           !.context = Append(@, [role |-> "assistant", content |-> message]),
                           !.log = LogAppend(@, DiscussionEntry(round_num, agent.name, topic, g.response)),
                           !.gateway = Append(@, g.call)],
                topic, round_num, rounds, i + 1, o)

RECURSIVE DiscussionRounds(_, _, _, _, _)
\* the loop over range(rounds) of lines 124-149, from round_num on
DiscussionRounds(st, topic, round_num, rounds, o) ==
  IF round_num >= rounds \/ st.raised # "none" THEN st
  ELSE DiscussionRounds(DiscussionAgents(st, topic, round_num, rounds, 1, o),
                        topic, round_num + 1, rounds, o)

\* the number of gateway calls structured_discussion makes
DiscussionCalls(n, rounds) ==
  IF n * rounds = 0 THEN 0
  ELSE IF JoinContextRaises(<<[role |-> "assistant", content |-> <<>>]>>) THEN 1
  ELSE n * rounds

\* ResearchOrchestrator.structured_discussion
StructuredDiscussion(topic, rounds, texts) ==
  /\ MayCall(DiscussionCalls(Len(agents), rounds))
  /\ \E o \in AnswersTo(DiscussionCalls(Len(agents), rounds), texts) :
       LET st == DiscussionRounds(
                   [agents |-> agents, log |-> discussion_log, discussion |-> <<>>,
                    context |-> <<>>, gateway |-> <<>>, raised |-> "none"],
                   topic, 0, rounds, o)
       IN  /\ agents' = st.agents
           /\ discussion_log' = st.log
           /\ gateway' = st.gateway
           /\ result' = IF st.raised = "none"
                        THEN [raised |-> "none", value |-> st.discussion]
                        ELSE [raised |-> st.raised]
           /\ calls' = calls + Len(st.gateway)
           /\ failures' = failures + NumDown(o)
  /\ op' = [name |-> "structured_discussion", topic |-> topic, rounds |-> rounds]
  /\ UNCHANGED <<research_topic, satisfaction_scores, search_history>>

IsSpace(c) == c \in {" ", "\t", "\n", "\r"}

RECURSIVE DropSpaces(_)
\* str.lstrip()
DropSpaces(text) ==
  IF text # <<>> /\ IsSpace(Head(text)) THEN DropSpaces(Tail(text)) ELSE text

RECURSIVE TakeWord(_)
\* the longest prefix without whitespace
TakeWord(text) ==
  IF text = <<>> \/ IsSpace(Head(text)) THEN <<>>
  ELSE <<Head(text)>> \o TakeWord(Tail(text))

RECURSIVE SplitWords(_)
\* str.split()
SplitWords(text) ==
  LET s == DropSpaces(text) IN
  IF s = <<>> THEN <<>>
  ELSE LET w == TakeWord(s) IN <<w>> \o SplitWords(SubSeq(s, Len(w) + 1, Len(s)))

RECURSIVE DropSpacesRight(_)
\* str.rstrip()
DropSpacesRight(text) ==
  IF text # <<>> /\ IsSpace(text[Len(text)])
  THEN DropSpacesRight(SubSeq(text, 1, Len(text) - 1)) ELSE text

\* a variant that strips the left end only, str.lstrip()
StripLeft(text) == DropSpaces(text)

\* str.strip()
Strip(text) == DropSpacesRight(DropSpaces(text))

\* the character U+00B2 (superscript two): str.isdigit accepts it, int() does not
SuperscriptTwo == "sup2"

IsDecimal(c) == \E d \in DOMAIN DecimalDigits : DecimalDigits[d] = c

\* str.isdigit on one character
IsDigit(c) == IsDecimal(c) \/ c = SuperscriptTwo

DigitValue(c) == (CHOOSE d \in DOMAIN DecimalDigits : DecimalDigits[d] = c) - 1

RECURSIVE DecimalValue(_)
DecimalValue(digits) ==
  IF digits = <<>> THEN 0
  ELSE 10 * DecimalValue(SubSeq(digits, 1, Len(digits) - 1)) + DigitValue(digits[Len(digits)])

\* int(text) for a text of isdigit characters
IntOf(text) ==
  IF text = <<>> \/ \E k \in DOMAIN text : ~IsDecimal(text[k])
  THEN [raised |-> "ValueError", value |-> 0]
  ELSE [raised |-> "none", value |-> DecimalValue(text)]

\* a variant that reads the digits of the whole response
ExtractNumberAnywhere(response) == IntOf(SelectSeq(response, IsDigit))

\* int(''.join(filter(str.isdigit, response.split()[0]))), line 180
ExtractNumber(response) ==
  LET words == SplitWords(response) IN
  IF words = <<>> THEN [raised |-> "IndexError", value |-> 0]
  ELSE IntOf(SelectSeq(words[1], IsDigit))

\* a variant without the upper limit
ClampLow(score) == IF score > MIN_SCORE THEN score ELSE MIN_SCORE

\* max(1, min(10, score)), line 181
Clamp(score) ==
  LET low == IF score < MAX_SCORE THEN score ELSE MAX_SCORE
  IN  IF low > MIN_SCORE THEN low ELSE MIN_SCORE

\* the score that lines 177-184 store for a response
ScoreOf(response) ==
  LET n == ExtractNumber(response) IN
  IF n.raised = "none" THEN Clamp(n.value) ELSE NEUTRAL_SCORE

\* the prompt of evaluate_satisfaction, lines 158-175
EvaluationPrompt(topic, notes, messages) ==
  [template |-> "evaluate", topic |-> topic, notes |-> notes, messages |-> messages]

RECURSIVE EvaluateAgents(_, _, _)
\* the loop over self.agents of lines 157-184, from the agent at index i on
EvaluateAgents(st, i, o) ==
  IF i > Len(st.agents) THEN st
  ELSE
    LET agent == st.agents[i]
        prompt == EvaluationPrompt(research_topic, Len(agent.research_notes),
                                   Len(discussion_log))
        g == GenerateResponse(agent, prompt, <<>>, o[i])
    IN  EvaluateAgents(
          [st EXCEPT !.agents[i] = g.agent,
                     !.scores = SetScore(@, agent.name, ScoreOf(g.response)),
                     !.gateway = Append(@, g.call)],
          i + 1, o)

\* a variant that records every rating in the transcript
EvaluateSatisfactionLogged(texts) ==
  /\ MayCall(Len(agents))
  /\ \E o \in AnswersTo(Len(agents), texts) :
       LET st == EvaluateAgents([agents |-> agents, scores |-> satisfaction_scores,
                                 gateway |-> <<>>], 1, o)
       IN  /\ agents' = st.agents
           /\ satisfaction_scores' = st.scores
           /\ gateway' = st.gateway
           /\ discussion_log' =
                discussion_log \o
                  [i \in DOMAIN st.gateway |->
                     [agent |-> st.gateway[i].name, type |-> "evaluation",
                      content |-> st.gateway[i].response]]
           /\ result' = [raised |-> "none", value |-> st.scores]
           /\ calls' = calls + Len(st.gateway)
           /\ failures' = failures + NumDown(o)
  /\ op' = [name |-> "evaluate_satisfaction"]
  /\ UNCHANGED <<research_topic, search_history>>

\* ResearchOrchestrator.evaluate_satisfaction
EvaluateSatisfaction(texts) ==
  /\ MayCall(Len(agents))
  /\ \E o \in AnswersTo(Len(agents), texts) :
       LET st == EvaluateAgents([agents |-> agents, scores |-> satisfaction_scores,
                                 gateway |-> <<>>], 1, o)
       IN  /\ agents' = st.agents
           /\ satisfaction_scores' = st.scores
           /\ gateway' = st.gateway
           /\ result' = [raised |-> "none", value |-> st.scores]
           /\ calls' = calls + Len(st.gateway)
           /\ failures' = failures + NumDown(o)
  /\ op' = [name |-> "evaluate_satisfaction"]
  /\ UNCHANGED <<discussion_log, research_topic, search_history>>

RECURSIVE SumScores(_, _)
\* sum(scores.values()) over the keys in names
SumScores(scores, names) ==
  IF names = {} THEN 0
  ELSE LET k == CHOOSE x \in names : TRUE
       IN  scores[k] + SumScores(scores, names \ {k})

\* a variant that asks for a mean above the target
ConsensusOfStrict(scores, target) ==
  IF DOMAIN scores = {} THEN FALSE
  ELSE SumScores(scores, DOMAIN scores) > target * Cardinality(DOMAIN scores)

\* the value check_consensus returns, lines 190-194
ConsensusOf(scores, target) ==
  IF DOMAIN scores = {} THEN FALSE
  ELSE SumScores(scores, DOMAIN scores) >= target * Cardinality(DOMAIN scores)

\* ResearchOrchestrator.check_consensus
CheckConsensus ==
  /\ op' = [name |-> "check_consensus"]
  /\ result' = [raised |-> "none",
                value |-> ConsensusOf(satisfaction_scores, TARGET_SATISFACTION)]
  /\ gateway' = <<>>
  /\ UNCHANGED <<agents, discussion_log, research_topic, satisfaction_scores,
                 search_history, calls, failures>>

\* len(system_prompt)
PromptLength(prompt) ==
  IF prompt.template = "initial"
  THEN INITIAL_PROMPT_CHARS + Len(prompt.name) + 2 * Len(prompt.specialty)
  ELSE Len(prompt.text)

\* a variant that counts the revision before the gateway is called
ImproveSystemPromptCounted(agent, feedback, answer) ==
  LET request == [system |-> [template |-> "meta"], context |-> <<>>,
                  prompt |-> [template |-> "improve",
                              current |-> agent.system_prompt,
                              discussions |-> Len(agent.conversation_history),
                              specialty |-> agent.specialty,
                              iteration |-> agent.improvement_count,
                              feedback |-> feedback],
                  name |-> agent.name, ok |-> answer.ok,
                  response |-> answer.text]
      new_prompt == [template |-> "text", text |-> Strip(answer.text)]
      counted == [agent EXCEPT !.improvement_count = @ + 1]
  IN  IF answer.ok
      THEN [agent |-> [counted EXCEPT !.system_prompt = new_prompt],
            report |-> [template |-> "improved",
                        version |-> agent.improvement_count + 1,
                        old_length |-> PromptLength(agent.system_prompt),
                        new_length |-> PromptLength(new_prompt)],
            call |-> request]
      ELSE [agent |-> counted, report |-> [template |-> "improve_error"],
            call |-> request]

\* ResearchAgent.improve_system_prompt: the request sent, the report returned
\* and the agent afterwards
ImproveSystemPrompt(agent, feedback, answer) ==
  LET request == [system |-> [template |-> "meta"], context |-> <<>>,
                  prompt |-> [template |-> "improve",
                              current |-> agent.system_prompt,
                              discussions |-> Len(agent.conversation_history),
                              specialty |-> agent.specialty,
                              iteration |-> agent.improvement_count,
                              feedback |-> feedback],
                  name |-> agent.name, ok |-> answer.ok,
                  response |-> answer.text]
      new_prompt == [template |-> "text", text |-> Strip(answer.text)]
  IN  IF answer.ok
      THEN [agent |-> [agent EXCEPT !.system_prompt = new_prompt,
                                    !.improvement_count = @ + 1],
            report |-> [template |-> "improved",
                        version |-> agent.improvement_count + 1,
                        old_length |-> PromptLength(agent.system_prompt),
                        new_length |-> PromptLength(new_prompt)],
            call |-> request]
      ELSE [agent |-> agent, report |-> [template |-> "improve_error"],
            call |-> request]

RECURSIVE ImproveAgents(_, _, _)
\* a variant of the loop that the first failed revision ends
ImproveAgentsAbort(st, i, o) ==
  IF i > Len(st.agents) THEN st
  ELSE
    LET agent == st.agents[i]
        feedback == [template |-> "feedback", topic |-> research_topic,
                     discussions |-> Len(discussion_log)]
        g == ImproveSystemPrompt(agent, feedback, o[i])
        next == [st EXCEPT !.agents[i] = g.agent,
                           !.results = Append(@, <<agent.name, g.report>>),
                           !.gateway = Append(@, g.call)]
    IN  IF g.call.ok THEN ImproveAgents(next, i + 1, o) ELSE next

\* the loop over self.agents of lines 323-326, from the agent at index i on
ImproveAgents(st, i, o) ==
  IF i > Len(st.agents) THEN st
  ELSE
    LET agent == st.agents[i]
        feedback == [template |-> "feedback", topic |-> research_topic,
                     discussions |-> Len(discussion_log)]
        g == ImproveSystemPrompt(agent, feedback, o[i])
    IN  ImproveAgents(
          [st EXCEPT !.agents[i] = g.agent,
                     !.results = Append(@, <<agent.name, g.report>>),
                     !.gateway = Append(@, g.call)],
          i + 1, o)

\* ResearchOrchestrator.trigger_self_improvement
TriggerSelfImprovement(texts) ==
  /\ MayCall(Len(agents))
  /\ \E o \in AnswersTo(Len(agents), texts) :
       LET st == ImproveAgents([agents |-> agents, results |-> <<>>,
                                gateway |-> <<>>], 1, o)
       IN  /\ agents' = st.agents
           /\ gateway' = st.gateway
           /\ result' = [raised |-> "none", value |-> st.results]
           /\ calls' = calls + Len(st.gateway)
           /\ failures' = failures + NumDown(o)
  /\ op' = [name |-> "trigger_self_improvement"]
  /\ UNCHANGED <<discussion_log, research_topic, satisfaction_scores, search_history>>

\* a variant in which the first agent of the roster writes every section
AuthorLead(st, i, template, o) ==
  LET agent == st.agents[1]
      prompt == [template |-> template, topic |-> research_topic,
                 specialty |-> agent.specialty]
      g == GenerateResponse(agent, prompt, <<>>, o[Len(st.gateway) + 1])
  IN  [st EXCEPT !.agents[1] = g.agent, !.gateway = Append(@, g.call),
                 !.text = g.response]

\* one generate_response call of generate_paper_sections by the agent at index i
Author(st, i, template, o) ==
  LET agent == st.agents[i]
      prompt == [template |-> template, topic |-> research_topic,
                 specialty |-> agent.specialty]
      g == GenerateResponse(agent, prompt, <<>>, o[Len(st.gateway) + 1])
  IN  [st EXCEPT !.agents[i] = g.agent, !.gateway = Append(@, g.call),
                 !.text = g.response]

\* f"\\subsection{{{agent.specialty}}}\n{method_part}", line 250
MethodologyPart(specialty, method_part) ==
  <<"\\", "s", "u", "b", "s", "e", "c", "t", "i", "o", "n", "{">> \o specialty
    \o <<"}", "\n">> \o method_part

RECURSIVE JoinParagraphs(_)
\* "\n\n".join(parts), line 252
JoinParagraphs(parts) ==
  IF parts = <<>> THEN <<>>
  ELSE IF Len(parts) = 1 THEN parts[1]
  ELSE parts[1] \o <<"\n", "\n">> \o JoinParagraphs(Tail(parts))

RECURSIVE MethodologyAgents(_, _, _)
\* the loop over self.agents of lines 241-250, from the agent at index i on
MethodologyAgents(st, i, o) ==
  IF i > Len(st.agents) THEN st
  ELSE LET a == Author(st, i, "methodology", o)
       IN  MethodologyAgents(
             [a EXCEPT !.methodology_parts =
                Append(@, MethodologyPart(st.agents[i].specialty, a.text))],
             i + 1, o)

\* ResearchOrchestrator.generate_paper_sections for a roster that is not empty
PaperSections(o) ==
  LET n == Len(agents)
      s0 == [agents |-> agents, gateway |-> <<>>, text |-> <<>>,
             methodology_parts |-> <<>>]
      title == Author(s0, 1, "title", o)
      abstract == Author(title, 1, "abstract", o)
      intro == Author(abstract, IF n > 1 THEN 2 ELSE 1, "introduction", o)
      method == MethodologyAgents(intro, 1, o)
      results == Author(method, n, "results", o)
      conclusion == Author(results, n, "conclusion", o)
  IN  [agents |-> conclusion.agents, gateway |-> conclusion.gateway,
       sections |-> [title |-> Strip(title.text), abstract |-> abstract.text,
                     introduction |-> intro.text,
                     methodology |-> JoinParagraphs(method.methodology_parts),
                     results |-> results.text, conclusion |-> conclusion.text]]

\* the number of gateway calls generate_paper_sections makes
SectionCalls(n) == IF n = 0 THEN 0 ELSE 5 + n

\* ResearchOrchestrator.generate_paper_sections
GeneratePaperSections(texts) ==
  /\ MayCall(SectionCalls(Len(agents)))
  /\ IF agents = <<>>
     THEN /\ result' = [raised |-> "IndexError"]
          /\ gateway' = <<>>
          /\ UNCHANGED <<agents, calls, failures>>
     ELSE \E o \in AnswersTo(SectionCalls(Len(agents)), texts) :
            LET st == PaperSections(o)
            IN  /\ agents' = st.agents
                /\ gateway' = st.gateway
                /\ result' = [raised |-> "none", value |-> st.sections]
                /\ calls' = calls + Len(st.gateway)
                /\ failures' = failures + NumDown(o)
  /\ op' = [name |-> "generate_paper_sections"]
  /\ UNCHANGED <<discussion_log, research_topic, satisfaction_scores, search_history>>

\* a variant that also adds the conclusion to the document
LatexCallsWithConclusion(sections, authors) ==
  << [method |-> "set_metadata", title |-> sections.title, authors |-> authors,
      abstract |-> sections.abstract],
     [method |-> "add_section", title |-> "Introduction",
      content |-> sections.introduction],
     [method |-> "add_section", title |-> "Methodology",
      content |-> sections.methodology],
     [method |-> "add_section", title |-> "Results and Discussion",
      content |-> sections.results],
     [method |-> "add_section", title |-> "Conclusion",
      content |-> sections.conclusion],
     [method |-> "save_to_file", filename |-> "research_paper.tex"] >>

\* the calls compile_final_paper makes on self.latex_generator, lines 288-301
LatexCalls(sections, authors) ==
  << [method |-> "set_metadata", title |-> sections.title, authors |-> authors,
      abstract |-> sections.abstract],
     [method |-> "add_section", title |-> "Introduction",
      content |-> sections.introduction],
     [method |-> "add_section", title |-> "Methodology",
      content |-> sections.methodology],
     [method |-> "add_section", title |-> "Results and Discussion",
      content |-> sections.results],
     [method |-> "save_to_file", filename |-> "research_paper.tex"] >>

\* ResearchOrchestrator.compile_final_paper: the sections are generated, then
\* handed to the document generator; the value returned is the one
\* save_to_file returns and is left out
CompileFinalPaper(texts) ==
  /\ MayCall(SectionCalls(Len(agents)))
  /\ IF agents = <<>>
     THEN /\ result' = [raised |-> "IndexError"]
          /\ gateway' = <<>>
          /\ UNCHANGED <<agents, calls, failures>>
     ELSE \E o \in AnswersTo(SectionCalls(Len(agents)), texts) :
            LET st == PaperSections(o)
                authors == [i \in DOMAIN st.agents |-> st.agents[i].name]
            IN  /\ agents' = st.agents
                /\ gateway' = st.gateway
                /\ result' = [raised |-> "none",
                              latex |-> LatexCalls(st.sections, authors)]
                /\ calls' = calls + Len(st.gateway)
                /\ failures' = failures + NumDown(o)
  /\ op' = [name |-> "compile_final_paper"]
  /\ UNCHANGED <<discussion_log, research_topic, satisfaction_scores, search_history>>

\* ResearchAgent.get_summary
GetSummary(agent) ==
  [name |-> agent.name, specialty |-> agent.specialty,
   conversations |-> Len(agent.conversation_history),
   research_notes |-> Len(agent.research_notes),
   improvements |-> agent.improvement_count,
   system_prompt_length |-> PromptLength(agent.system_prompt)]

\* a variant that exports the transcript newest entry first
SessionDataNewestFirst(now) ==
  [topic |-> research_topic,
   timestamp |-> now,
   agents |-> [i \in DOMAIN agents |-> GetSummary(agents[i])],
   discussion_log |-> [i \in DOMAIN discussion_log |->
                         discussion_log[Len(discussion_log) + 1 - i]],
   satisfaction_scores |-> satisfaction_scores,
   total_interactions |-> Len(discussion_log)]

\* session_data of export_session_log, lines 306-313; now is the text of
\* datetime.now().isoformat()
SessionData(now) ==
  [topic |-> research_topic,
   timestamp |-> now,
   agents |-> [i \in DOMAIN agents |-> GetSummary(agents[i])],
   discussion_log |-> discussion_log,
   satisfaction_scores |-> satisfaction_scores,
   total_interactions |-> Len(discussion_log)]

\* the JSON text of a str and of an int
JsonString(text) == [json |-> "string", text |-> text]

JsonNumber(n) == [json |-> "number", value |-> n]

\* the JSON object of one transcript entry: round is an int, every other
\* value a str
DumpEntry(entry) ==
  [json |-> "object",
   members |-> [k \in DOMAIN entry |->
                  IF k = "round" THEN JsonNumber(entry[k]) ELSE JsonString(entry[k])]]

\* the JSON object of one agent summary: name and specialty are str, the
\* other values int
DumpSummary(summary) ==
  [json |-> "object",
   members |-> [k \in DOMAIN summary |->
                  IF k \in {"name", "specialty"} THEN JsonString(summary[k])
                  ELSE JsonNumber(summary[k])]]

\* the JSON object of the dict satisfaction_scores
DumpScores(scores) ==
  [json |-> "object", members |-> [k \in DOMAIN scores |-> JsonNumber(scores[k])]]

\* json.dump(session_data, f, indent=2), line 316
JsonDump(data) ==
  [json |-> "object",
   members |->
     [topic |-> JsonString(data.topic),
      timestamp |-> JsonString(data.timestamp),
      agents |-> [json |-> "array",
                  items |-> [i \in DOMAIN data.agents |-> DumpSummary(data.agents[i])]],
      discussion_log |->
        [json |-> "array",
         items |-> [i \in DOMAIN data.discussion_log |->
                      DumpEntry(data.discussion_log[i])]],
      satisfaction_scores |-> DumpScores(data.satisfaction_scores),
      total_interactions |-> JsonNumber(data.total_interactions)]]

\* a variant that logs the export in the transcript
ExportSessionLogLogged(now) ==
  /\ op' = [name |-> "export_session_log"]
  /\ result' = [raised |-> "none", value |-> "research_session.json",
                file |-> JsonDump(SessionData(now))]
  /\ gateway' = <<>>
  /\ discussion_log' = LogAppend(discussion_log, [type |-> "export"])
  /\ UNCHANGED <<agents, research_topic, satisfaction_scores,
                 search_history, calls, failures>>

\* ResearchOrchestrator.export_session_log: the file written holds the JSON
\* text of session_data
ExportSessionLog(now) ==
  /\ op' = [name |-> "export_session_log"]
  /\ result' = [raised |-> "none", value |-> "research_session.json",
                file |-> JsonDump(SessionData(now))]
  /\ gateway' = <<>>
  /\ UNCHANGED <<agents, discussion_log, research_topic, satisfaction_scores,
                 search_history, calls, failures>>

(***************************************************************************)
(* The whole engine: every operation, in any order, on agents registered   *)
(* one at a time.                                                          *)
(***************************************************************************)
Next ==
  \/ \E p \in Personas : AddAgent(p.name, p.specialty)
  \/ \E t \in Topics : SetResearchTopic(t)
  \/ \E r \in 1..MaxRounds : ConductBrainstormSession(r, "Replies")
  \/ \E qs \in QueryLists : ConductResearchPhase(qs, BriefOutcomes, "Replies")
  \/ \E t \in DiscussionTopics : \E r \in 1..MaxRounds :
       StructuredDiscussion(t, r, "Replies")
  \/ EvaluateSatisfaction("BriefRatings")
  \/ CheckConsensus
  \/ TriggerSelfImprovement("BriefRewrites")
  \/ GeneratePaperSections("Replies")
  \/ CompileFinalPaper("Replies")
  \/ \E now \in Timestamps : ExportSessionLog(now)

Spec == Init /\ [][Next]_vars

(***************************************************************************)
(* The two staged phases: brainstorm and structured discussion.            *)
(***************************************************************************)
NextDebate ==
  \/ \E p \in {Cast[Len(agents) + 1]} : AddAgent(p.name, p.specialty)
  \/ \E r \in 0..MaxRounds : ConductBrainstormSession(r, "Replies")
  \/ \E t \in DiscussionTopics : \E r \in 0..MaxRounds :
       StructuredDiscussion(t, r, "Replies")

SpecDebate == Init /\ [][NextDebate]_vars

(***************************************************************************)
(* Registration, evaluation and the consensus check.                       *)
(***************************************************************************)
NextScores ==
  \/ \E p \in Personas : AddAgent(p.name, p.specialty)
  \/ EvaluateSatisfaction("Ratings")
  \/ CheckConsensus

SpecScores == Init /\ [][NextScores]_vars

(***************************************************************************)
(* Evaluation of a team registered in a fixed order, with any short text   *)
(* as the last rating; a pass starts only when it ends within MaxCalls     *)
(* gateway calls.                                                          *)
(***************************************************************************)
NextParse ==
  \/ \E p \in {Cast[Len(agents) + 1]} : AddAgent(p.name, p.specialty)
  \/ calls + Len(agents) <= MaxCalls /\ EvaluateSatisfaction("ParseRatings")

SpecParse == Init /\ [][NextParse]_vars

(***************************************************************************)
(* The content phases of a team registered in a fixed order: brainstorm,   *)
(* research and the synthesis of the paper's sections.                     *)
(***************************************************************************)
NextPaper ==
  \/ \E p \in {Cast[Len(agents) + 1]} : AddAgent(p.name, p.specialty)
  \/ \E r \in 1..MaxRounds : ConductBrainstormSession(r, "Replies")
  \/ \E qs \in QueryLists : ConductResearchPhase(qs, SearchOutcomes, "Replies")
  \/ GeneratePaperSections("Replies")

SpecPaper == Init /\ [][NextPaper]_vars

(***************************************************************************)
(* Self-improvement of a team registered in a fixed order.                 *)
(***************************************************************************)
NextImprove ==
  \/ \E p \in {Cast[Len(agents) + 1]} : AddAgent(p.name, p.specialty)
  \/ \E t \in Topics : SetResearchTopic(t)
  \/ TriggerSelfImprovement("Rewrites")

SpecImprove == Init /\ [][NextImprove]_vars

(***************************************************************************)
(* A session of a team registered in a fixed order: the topic, the phases  *)
(* that write the transcript, the evaluation and the export; a phase       *)
(* starts only when it ends within MaxCalls gateway calls.                 *)
(***************************************************************************)
\* whether an operation that makes n gateway calls ends within MaxCalls
EndsWithin(n) == calls + n <= MaxCalls

NextSession ==
  \/ \E p \in {Cast[Len(agents) + 1]} : AddAgent(p.name, p.specialty)
  \/ \E t \in Topics : SetResearchTopic(t)
  \/ \E r \in 1..MaxRounds :
       EndsWithin(Len(agents) * r) /\ ConductBrainstormSession(r, "Replies")
  \/ \E qs \in QueryLists :
       /\ EndsWithin(ResearchCalls(Len(agents), qs))
       /\ ConductResearchPhase(qs, BriefOutcomes, "Replies")
  \/ \E t \in DiscussionTopics :
       /\ EndsWithin(DiscussionCalls(Len(agents), 1))
       /\ StructuredDiscussion(t, 1, "Replies")
  \/ EndsWithin(Len(agents)) /\ EvaluateSatisfaction("BriefRatings")
  \/ \E now \in Timestamps : ExportSessionLog(now)

SpecSession == Init /\ [][NextSession]_vars

(***************************************************************************)
(* Direct calls of generate_response on the agents of a team registered in *)
(* a fixed order.                                                          *)
(***************************************************************************)
NextRespond ==
  \/ \E p \in {Cast[Len(agents) + 1]} : AddAgent(p.name, p.specialty)
  \/ \E i \in 1..MaxAgents : \E prompt \in Prompts : \E context \in Contexts :
       Respond(i, prompt, context, "Replies")

SpecRespond == Init /\ [][NextRespond]_vars

(***************************************************************************)
(* Registration from the menu: up to MaxAgents + 1 single agents and the   *)
(* default team, with the evaluation of a roster of up to MaxAgents + 1    *)
(* agents and the consensus check.                                         *)
(***************************************************************************)
NextRoster ==
  \/ \E p \in Personas :
       Len(agents) <= MaxAgents /\ RegisterAgent(p.name, p.specialty)
  \/ InitializeDefaultTeam
  \/ Len(agents) <= MaxAgents + 1 /\ EvaluateSatisfaction("TwoRatings")
  \/ CheckConsensus

SpecRoster == Init /\ [][NextRoster]_vars

(***************************************************************************)
(* The research phase of a team registered in a fixed order, with lists of *)
(* up to two queries and every outcome of the retrieval.                   *)
(***************************************************************************)
NextResearch ==
  \/ \E p \in {Cast[Len(agents) + 1]} : AddAgent(p.name, p.specialty)
  \/ \E qs \in ResearchLists : ConductResearchPhase(qs, SearchOutcomes, "Replies")

SpecResearch == Init /\ [][NextResearch]_vars

(***************************************************************************)
(* The way to the document of a team registered in a fixed order: the      *)
(* topic, the evaluation, the consensus check and the synthesis.           *)
(***************************************************************************)
NextCompile ==
  \/ \E p \in {Cast[Len(agents) + 1]} : AddAgent(p.name, p.specialty)
  \/ \E t \in Topics : SetResearchTopic(t)
  \/ EndsWithin(Len(agents)) /\ EvaluateSatisfaction("BriefRatings")
  \/ CheckConsensus
  \/ GeneratePaperSections("Replies")
  \/ CompileFinalPaper("Replies")

SpecCompile == Init /\ [][NextCompile]_vars

(***************************************************************************)
(* Properties of the staged phases.                                        *)
(***************************************************************************)
\* whether the text part occurs in the text text
Contains(text, part) ==
  \E s \in 0..(Len(text) - Len(part)) : SubSeq(text, s + 1, s + Len(part)) = part

\* C1: one call of conduct_brainstorm_session(rounds=R) with R >= 1 over a
\* roster of N >= 1 agents raises nothing, appends exactly N*R entries, all of
\* type brainstorm, to discussion_log and returns a list of exactly N*R
\* formatted ideas, one per appended entry, whatever the gateway answers,
\* failed calls included.
C1_BrainstormCounts ==
  [][ (op'.name = "conduct_brainstorm_session" /\ Len(agents) >= 1 /\ op'.rounds >= 1)
      => LET n == Len(agents)
             r == op'.rounds
             base == Len(discussion_log)
         IN  /\ result'.raised = "none"
             /\ Len(result'.value) = n * r
             /\ Len(discussion_log') = base + n * r
             /\ \A k \in 1..(n * r) :
                  /\ discussion_log'[base + k].type = "brainstorm"
                  /\ result'.value[k] = FormatMessage(discussion_log'[base + k].agent,
                                                      discussion_log'[base + k].content)
    ]_vars

\* a brainstorm of 2 rounds over 2 agents, one of whose gateway calls failed,
\* after an earlier brainstorm had logged an entry
C1_Witness ==
  /\ op.name = "conduct_brainstorm_session"
  /\ op.rounds = 2
  /\ Len(agents) = 2
  /\ Len(result.value) = 4
  /\ Len(discussion_log) = 5
  /\ \E k \in 1..Len(gateway) : ~gateway[k].ok

\* C2: within one call of conduct_brainstorm_session or structured_discussion
\* over the roster a_1..a_N, the k-th entry the call appends (k from 0) is the
\* entry of the k-th gateway call, is attributed to a_((k mod N)+1) and carries
\* the round number floor(k/N)+1.
C2_AppendOrder ==
  [][ op'.name \in {"conduct_brainstorm_session", "structured_discussion"}
      => \A k \in 0..(Len(discussion_log') - Len(discussion_log) - 1) :
           LET e == discussion_log'[Len(discussion_log) + k + 1]
           IN  /\ e.agent = agents[(k % Len(agents)) + 1].name
               /\ e.round = (k \div Len(agents)) + 1
               /\ k + 1 <= Len(gateway')
               /\ gateway'[k + 1].name = e.agent
               /\ gateway'[k + 1].response = e.content
    ]_vars

\* a brainstorm over the roster A, B has logged A, B of round 1 before A, B
\* of round 2
C2_Witness ==
  /\ op.name = "conduct_brainstorm_session"
  /\ Len(agents) = 2
  /\ Len(discussion_log) = 4
  /\ discussion_log[2].agent = <<"B">> /\ discussion_log[2].round = 1
  /\ discussion_log[3].agent = <<"A">> /\ discussion_log[3].round = 2
  /\ discussion_log[4].agent = <<"B">> /\ discussion_log[4].round = 2

C4_ContextCarriesEarlierTurns ==
  (op.name = "structured_discussion" /\ Len(agents) * op.rounds >= 2) =>
    /\ Len(gateway) = Len(agents) * op.rounds
    /\ \A k \in 1..Len(gateway) :
         gateway[k].context =
           [j \in 1..(k - 1) |->
              [role |-> "assistant",
               content |-> FormatMessage(gateway[j].name, gateway[j].response)]]

\* C5, as stated: structured_discussion(topic, rounds=R) over N >= 1 agents
\* with R >= 1 runs to completion and returns exactly N*R formatted messages.
C5_DiscussionCompletes ==
  (op.name = "structured_discussion" /\ Len(agents) >= 1 /\ op.rounds >= 1) =>
    /\ result.raised = "none"
    /\ Len(result.value) = Len(agents) * op.rounds

(***************************************************************************)
(* Properties of the transcript and of the satisfaction table.             *)
(***************************************************************************)
\* C6: the transcript is append-only: over every step of every engine
\* operation, in every interleaving, discussion_log before the step is a
\* prefix of discussion_log after it.
C6_TranscriptAppendOnly ==
  [][ /\ Len(discussion_log) <= Len(discussion_log')
      /\ SubSeq(discussion_log', 1, Len(discussion_log)) = discussion_log
    ]_vars

\* the research phase has appended its entry behind a brainstorm entry
C6_Witness ==
  /\ op.name = "conduct_research_phase"
  /\ Len(discussion_log) >= 2
  /\ discussion_log[1].type = "brainstorm"
  /\ discussion_log[Len(discussion_log)].type = "research"

\* C7: in every reachable state the keys of satisfaction_scores are exactly
\* the names of the agents of the roster.
C7_TableKeysAreRosterNames ==
  DOMAIN satisfaction_scores = { agents[i].name : i \in DOMAIN agents }

\* an evaluation over the roster A, B has replaced a neutral score
C7_Witness ==
  /\ op.name = "evaluate_satisfaction"
  /\ Len(agents) = 2
  /\ agents[1].name # agents[2].name
  /\ satisfaction_scores[agents[1].name] # 5

\* whether no agent behind position i bears the name of the agent at i
LastOfName(i) == \A j \in DOMAIN agents : j > i => agents[j].name # agents[i].name

\* C8: in every reachable state every value of satisfaction_scores is an
\* integer of 1..10; it is 5 right after add_agent; after
\* evaluate_satisfaction a response "garbage" has given the score 5.
C8_ScoresInRange ==
  /\ \A k \in DOMAIN satisfaction_scores : satisfaction_scores[k] \in 1..10
  /\ op.name = "add_agent" => satisfaction_scores[op.agent] = 5
  /\ op.name = "evaluate_satisfaction" =>
       \A i \in DOMAIN agents :
         (LastOfName(i) /\ gateway[i].response = <<"g", "a", "r", "b", "a", "g", "e">>)
           => satisfaction_scores[agents[i].name] = 5

\* an evaluation over two agents was answered "15" and "garbage"
C8_Witness ==
  /\ op.name = "evaluate_satisfaction"
  /\ Len(agents) = 2
  /\ agents[1].name # agents[2].name
  /\ gateway[1].response = <<"1", "5">>
  /\ gateway[2].response = <<"g", "a", "r", "b", "a", "g", "e">>

\* the first whitespace-separated token of a text, <<>> when it has none
FirstToken(text) ==
  LET starts == { a \in DOMAIN text :
                    ~IsSpace(text[a]) /\ \A b \in 1..(a - 1) : IsSpace(text[b]) }
  IN  IF starts = {} THEN <<>>
      ELSE LET a == CHOOSE x \in starts : TRUE
               b == CHOOSE x \in a..Len(text) :
                      /\ \A c \in a..x : ~IsSpace(text[c])
                      /\ x = Len(text) \/ IsSpace(text[x + 1])
           IN  SubSeq(text, a, b)

\* the rating a response stands for: the digit characters of its first token
\* read as one decimal integer and limited to 1..10, and 5 when the token has
\* no digit character or holds one that is no decimal digit
RatingRule(text) ==
  LET digits == SelectSeq(FirstToken(text), IsDigit)
      zeros == { z \in 0..Len(digits) : \A j \in 1..z : digits[j] = "0" }
      lead == CHOOSE z \in zeros : \A y \in zeros : y <= z
  IN  IF digits = <<>> \/ \E j \in DOMAIN digits : digits[j] = SuperscriptTwo THEN 5
      ELSE IF Len(digits) - lead = 0 THEN 1
      ELSE IF Len(digits) - lead >= 2 THEN 10
      ELSE CHOOSE d \in 1..9 : NumberText(d) = <<digits[Len(digits)]>>

\* C9: evaluate_satisfaction sets the score of every agent to the rating its
\* response of this pass stands for, whatever the score was before: the digit
\* characters of the first whitespace-separated token read as one decimal
\* integer and limited to 1..10 ("0" gives 1, "15" gives 10, "8/10" gives 10),
\* and 5 when the first token has no digit, the response is empty or the
\* gateway call failed.
C9_ScoreFromResponse ==
  op.name = "evaluate_satisfaction" =>
    \A i \in DOMAIN agents :
      LastOfName(i) =>
        LET score == satisfaction_scores[agents[i].name]
            response == gateway[i].response
        IN  /\ score = RatingRule(response)
            /\ response = <<"0">> => score = 1
            /\ response = <<"1", "5">> => score = 10
            /\ response = <<"8", "/", "1", "0">> => score = 10
            /\ response = <<>> => score = 5
            /\ ~gateway[i].ok => score = 5

\* a second pass over the agent A was answered "1 0" and has replaced the
\* score 9 of the first pass by 1
C9_Witness ==
  /\ op.name = "evaluate_satisfaction"
  /\ Len(agents) = 1
  /\ Len(agents[1].conversation_history) = 2
  /\ agents[1].conversation_history[1].response = <<"9">>
  /\ gateway[1].response = <<"1", " ", "0">>
  /\ satisfaction_scores[agents[1].name] = 1

RECURSIVE Excess(_, _, _)
\* the sum over the keys in names of the score minus the target
Excess(scores, names, target) ==
  IF names = {} THEN 0
  ELSE LET k == CHOOSE x \in names : TRUE
       IN  (scores[k] - target) + Excess(scores, names \ {k}, target)

\* C10: check_consensus returns true if and only if satisfaction_scores is
\* not empty and the mean of its values is at least the target 8: false on an
\* empty roster, true on {A: 9, B: 9}, false on {A: 9, B: 6}; it changes no
\* state of the engine.
C10_ConsensusRule ==
  [][ op'.name = "check_consensus" =>
        LET scores == satisfaction_scores
            A == <<"A">>
            B == <<"B">>
        IN  /\ result'.raised = "none"
            /\ result'.value =
                 (DOMAIN scores # {} /\ Excess(scores, DOMAIN scores, 8) >= 0)
            /\ agents = <<>> => result'.value = FALSE
            /\ (DOMAIN scores = {A, B} /\ scores[A] = 9 /\ scores[B] = 9)
                 => result'.value = TRUE
            /\ (DOMAIN scores = {A, B} /\ scores[A] = 9 /\ scores[B] = 6)
                 => result'.value = FALSE
            /\ UNCHANGED <<agents, discussion_log, research_topic,
                           satisfaction_scores, search_history>>
    ]_vars

\* check_consensus has answered false on the scores {A: 9, B: 6}
C10_Witness ==
  /\ op.name = "check_consensus"
  /\ DOMAIN satisfaction_scores = { <<"A">>, <<"B">> }
  /\ satisfaction_scores[<<"A">>] = 9
  /\ satisfaction_scores[<<"B">>] = 6
  /\ result.value = FALSE

(***************************************************************************)
(* Properties of the agent.                                                *)
(***************************************************************************)
\* C11: for a context of length L, generate_response hands the gateway the
\* system message, then exactly the last min(L, 10) context messages in their
\* original order, then the user prompt; of 15 context messages the window
\* holds the messages 6 to 15.
C11_ContextWindow ==
  op.name = "generate_response" =>
    LET L == Len(op.context)
        w == IF L < 10 THEN L ELSE 10
        m == gateway[1].messages
    IN  /\ Len(m) = w + 2
        /\ m[1] = [role |-> "system", content |-> agents[op.agent].system_prompt]
        /\ \A j \in 1..w : m[1 + j] = op.context[L - w + j]
        /\ m[w + 2] = [role |-> "user", content |-> op.prompt]
        /\ L = 15 => (m[2] = op.context[6] /\ m[11] = op.context[15])

\* generate_response was called with 15 context messages
C11_Witness ==
  /\ op.name = "generate_response"
  /\ Len(op.context) = 15
  /\ Len(gateway[1].messages) = 12

RECURSIVE TotalHistory(_)
\* the number of history records of the first n agents
TotalHistory(n) ==
  IF n = 0 THEN 0
  ELSE Len(agents[n].conversation_history) + TotalHistory(n - 1)

\* C12, as stated: every call of generate_response appends exactly one
\* (prompt, response) record to the agent's conversation_history, whether the
\* gateway call succeeds or fails.
C12_HistoryGrowsOnEveryCall ==
  /\ TotalHistory(Len(agents)) = calls
  /\ op.name = "generate_response" =>
       LET h == agents[op.agent].conversation_history
       IN  /\ h # <<>>
           /\ h[Len(h)] = [prompt |-> op.prompt, response |-> result.value]

\* C12, amended: a call of generate_response whose gateway call succeeds
\* appends exactly one (prompt, response) record to the agent's
\* conversation_history; a call whose gateway call fails appends nothing and
\* returns the error marker; no other agent's history changes.
C12_HistoryGrowsOnSuccess ==
  [][ op'.name = "generate_response" =>
        LET i == op'.agent
            before == agents[i].conversation_history
            after == agents'[i].conversation_history
        IN  /\ IF gateway'[1].ok
               THEN after = Append(before, [prompt |-> op'.prompt,
                                            response |-> result'.value])
               ELSE after = before /\ result'.value = ErrorMarker
            /\ \A j \in DOMAIN agents : j # i => agents'[j] = agents[j]
    ]_vars

\* a call on an agent with one history record failed and left the one record
C12_Witness ==
  /\ op.name = "generate_response"
  /\ ~gateway[1].ok
  /\ Len(agents[op.agent].conversation_history) = 1

\* C13: a failed gateway call inside generate_response raises nothing in the
\* caller: conduct_brainstorm_session, conduct_research_phase and
\* generate_paper_sections over a roster that is not empty make every one of
\* their gateway calls and return, a failed call returns the error marker,
\* and the text a call returned, marker or not, is the content of its turn.
C13_FailureDoesNotAbort ==
  (/\ op.name \in {"conduct_brainstorm_session", "conduct_research_phase",
                   "generate_paper_sections"}
   /\ agents # <<>>)
  => LET n == Len(agents)
         base == Len(discussion_log) - Len(gateway)
     IN  /\ result.raised = "none"
         /\ \A k \in DOMAIN gateway :
              ~gateway[k].ok => gateway[k].response = ErrorMarker
         /\ op.name = "conduct_brainstorm_session" =>
              /\ Len(gateway) = n * op.rounds
              /\ base >= 0
              /\ \A k \in DOMAIN gateway :
                   /\ discussion_log[base + k].type = "brainstorm"
                   /\ discussion_log[base + k].content = gateway[k].response
         /\ op.name = "conduct_research_phase" =>
              /\ Len(gateway) = Len(op.queries)
              /\ base >= 0
              /\ \A k \in DOMAIN gateway :
                   /\ discussion_log[base + k].type = "research"
                   /\ discussion_log[base + k].analysis = gateway[k].response
         /\ op.name = "generate_paper_sections" =>
              /\ Len(gateway) = 5 + n
              /\ result.value.title = Strip(gateway[1].response)
              /\ result.value.abstract = gateway[2].response
              /\ result.value.introduction = gateway[3].response
              /\ result.value.results = gateway[4 + n].response
              /\ result.value.conclusion = gateway[5 + n].response

\* the synthesis over two agents went on after its third gateway call had
\* failed, and the introduction is the error marker
C13_Witness ==
  /\ op.name = "generate_paper_sections"
  /\ Len(agents) = 2
  /\ Len(gateway) = 7
  /\ ~gateway[3].ok
  /\ result.value.introduction = ErrorMarker

RECURSIVE TotalRevisions(_)
\* the sum of the improvement counts of the first n agents
TotalRevisions(n) ==
  IF n = 0 THEN 0 ELSE agents[n].improvement_count + TotalRevisions(n - 1)

\* C14, as stated: every call of improve_system_prompt increments the
\* agent's improvement_count by exactly 1 and replaces system_prompt with the
\* gateway's response character for character, for every gateway outcome
\* and every response text.
C14_RevisionOnEveryCall ==
  /\ TotalRevisions(Len(agents)) = calls
  /\ op.name = "trigger_self_improvement" =>
       \A i \in DOMAIN agents :
         agents[i].system_prompt = [template |-> "text", text |-> gateway[i].response]

\* a text without its leading and trailing whitespace
Trimmed(text) ==
  LET inked == { j \in DOMAIN text : ~IsSpace(text[j]) }
  IN  IF inked = {} THEN <<>>
      ELSE SubSeq(text, CHOOSE a \in inked : \A j \in inked : a <= j,
                        CHOOSE b \in inked : \A j \in inked : j <= b)

\* C14, amended: a call of improve_system_prompt whose gateway call succeeds
\* increments the agent's improvement_count by exactly 1 and replaces
\* system_prompt with the gateway's response without its leading and trailing
\* whitespace, for every response text, the empty one included; a call whose
\* gateway call fails changes neither improvement_count nor system_prompt.
C14_RevisionOnSuccess ==
  [][ op'.name = "trigger_self_improvement" =>
        \A i \in DOMAIN agents :
          IF gateway'[i].ok
          THEN /\ agents'[i].improvement_count = agents[i].improvement_count + 1
               /\ agents'[i].system_prompt =
                    [template |-> "text", text |-> Trimmed(gateway'[i].response)]
          ELSE /\ agents'[i].improvement_count = agents[i].improvement_count
               /\ agents'[i].system_prompt = agents[i].system_prompt
    ]_vars

\* a revision answered " p\n" made "p" the system prompt of the first agent,
\* and the failed revision of the second agent left its initial prompt
C14_Witness ==
  /\ op.name = "trigger_self_improvement"
  /\ Len(agents) = 2
  /\ gateway[1].ok
  /\ gateway[1].response = <<" ", "p", "\n">>
  /\ agents[1].system_prompt = [template |-> "text", text |-> <<"p">>]
  /\ ~gateway[2].ok
  /\ agents[2].system_prompt.template = "initial"

\* C15: trigger_self_improvement calls improve_system_prompt exactly once on
\* every agent, in roster order, and returns a list of exactly N (name,
\* report) pairs whose names are the roster's names in roster order; a failed
\* revision of one agent does not stop the revision of the later agents.
C15_ImprovementOrder ==
  [][ op'.name = "trigger_self_improvement" =>
        /\ result'.raised = "none"
        /\ Len(gateway') = Len(agents)
        /\ Len(result'.value) = Len(agents)
        /\ \A i \in DOMAIN agents :
             /\ gateway'[i].name = agents[i].name
             /\ gateway'[i].prompt.template = "improve"
             /\ gateway'[i].prompt.current = agents[i].system_prompt
             /\ gateway'[i].prompt.iteration = agents[i].improvement_count
             /\ result'.value[i][1] = agents[i].name
             /\ result'.value[i][2].template =
                  IF gateway'[i].ok THEN "improved" ELSE "improve_error"
    ]_vars

\* the revision of the first agent failed and the second agent was revised
C15_Witness ==
  /\ op.name = "trigger_self_improvement"
  /\ Len(agents) = 2
  /\ ~gateway[1].ok
  /\ gateway[2].ok
  /\ agents[2].improvement_count = 1
  /\ Len(result.value) = 2

\* C17: export_session_log is a pure projection: it leaves the transcript,
\* the topic, the satisfaction scores, the roster and every agent's system
\* prompt, conversation history, research notes and improvement count as they
\* were, and two consecutive exports write records that agree on every field
\* except the timestamp.
C17_ExportIsProjection ==
  [][ op'.name = "export_session_log" =>
        /\ discussion_log' = discussion_log
        /\ research_topic' = research_topic
        /\ satisfaction_scores' = satisfaction_scores
        /\ Len(agents') = Len(agents)
        /\ \A i \in DOMAIN agents :
             /\ agents'[i].name = agents[i].name
             /\ agents'[i].system_prompt = agents[i].system_prompt
             /\ agents'[i].conversation_history = agents[i].conversation_history
             /\ agents'[i].research_notes = agents[i].research_notes
             /\ agents'[i].improvement_count = agents[i].improvement_count
        /\ op.name = "export_session_log" =>
             /\ DOMAIN result'.file.members = DOMAIN result.file.members
             /\ \A k \in DOMAIN result.file.members \ {"timestamp"} :
                  result'.file.members[k] = result.file.members[k]
    ]_vars

\* the second of two exports of a session that has a transcript, a score and
\* an agent with a conversation history
C17_Witness ==
  /\ op.name = "export_session_log"
  /\ result.file.members.timestamp = JsonString(<<"t", "2">>)
  /\ Len(discussion_log) > 0
  /\ DOMAIN satisfaction_scores # {}
  /\ \E i \in DOMAIN agents : Len(agents[i].conversation_history) > 0

RECURSIVE JsonLoad(_)
\* the value json.load reads from a JSON text: a str from a string, an int
\* from a number, a list from an array and a dict from an object
JsonLoad(j) ==
  CASE j.json = "string" -> j.text
    [] j.json = "number" -> j.value
    [] j.json = "array" -> [i \in DOMAIN j.items |-> JsonLoad(j.items[i])]
    [] j.json = "object" -> [k \in DOMAIN j.members |-> JsonLoad(j.members[k])]

\* C18: the record written by export_session_log, when loaded again,
\* reproduces the session's topic, satisfaction scores and transcript
\* unchanged; its total_interactions is the length of the transcript and its
\* discussion_log lists the transcript's entries in the transcript's order.
C18_ExportRoundTrip ==
  op.name = "export_session_log" =>
    LET loaded == JsonLoad(result.file)
    IN  /\ loaded.topic = research_topic
        /\ loaded.satisfaction_scores = satisfaction_scores
        /\ loaded.total_interactions = Len(discussion_log)
        /\ Len(loaded.discussion_log) = Len(discussion_log)
        /\ \A i \in DOMAIN discussion_log :
             loaded.discussion_log[i] = discussion_log[i]

\* an export of a session whose transcript holds the entries of two rounds
C18_Witness ==
  /\ op.name = "export_session_log"
  /\ Len(discussion_log) = 2
  /\ discussion_log[1].round = 1
  /\ discussion_log[2].round = 2
  /\ JsonLoad(result.file).total_interactions = 2

\* the research topic a prompt of a phase carries
TopicOf(prompt) ==
  IF prompt.template = "discussion" THEN prompt.context ELSE prompt.topic

\* C19: set_research_topic touches only the topic and is idempotent: a call
\* stores its argument and leaves the roster, the satisfaction scores and
\* every transcript entry as they were, a second call with the same topic
\* right after the first changes nothing, and every prompt of a later
\* brainstorm, research, discussion or evaluation carries the topic set last.
C19_SetTopicOnlyTopic ==
  [][ /\ op'.name = "set_research_topic" =>
           /\ research_topic' = op'.topic
           /\ agents' = agents
           /\ satisfaction_scores' = satisfaction_scores
           /\ discussion_log' = discussion_log
           /\ search_history' = search_history
           /\ (op.name = "set_research_topic" /\ op.topic = op'.topic) =>
                vars' = vars
      /\ op'.name # "set_research_topic" => research_topic' = research_topic
      /\ op'.name \in {"conduct_brainstorm_session", "conduct_research_phase",
                       "structured_discussion", "evaluate_satisfaction"} =>
           \A k \in DOMAIN gateway' : TopicOf(gateway'[k].prompt) = research_topic
    ]_vars

\* a brainstorm under the topic "Y", set after a brainstorm under the topic
\* "X" had written the first transcript entry
C19_Witness ==
  /\ op.name = "conduct_brainstorm_session"
  /\ research_topic = <<"Y">>
  /\ Len(discussion_log) = 2
  /\ Len(agents) = 1
  /\ Len(agents[1].conversation_history) = 2
  /\ agents[1].conversation_history[1].prompt.topic = <<"X">>
  /\ gateway[1].prompt.topic = <<"Y">>

\* the operations that are phases of a session
Phases ==
  {"conduct_brainstorm_session", "conduct_research_phase", "structured_discussion",
   "evaluate_satisfaction", "trigger_self_improvement", "generate_paper_sections"}

\* C20, as stated: a phase invoked with an empty roster or an empty topic
\* fails fast: it raises an error, makes no gateway or retrieval call and
\* leaves the transcript and the satisfaction scores unchanged.
C20_PhaseFailsFast ==
  [][ (op'.name \in Phases /\ (agents = <<>> \/ research_topic = <<>>)) =>
        /\ result'.raised # "none"
        /\ gateway' = <<>>
        /\ search_history' = search_history
        /\ discussion_log' = discussion_log
        /\ satisfaction_scores' = satisfaction_scores
    ]_vars

\* C21, as stated: agent names are a unique key of the roster: after any
\* sequence of add_agent and initialize_default_team calls no two agents of
\* the roster have the same name.
C21_NamesUnique ==
  \A i, j \in DOMAIN agents : agents[i].name = agents[j].name => i = j

\* C22, as stated: the satisfaction scores gate the synthesis: the engine
\* generates the sections and compiles the paper only in a state where
\* check_consensus returns true.
C22_SynthesisGated ==
  (/\ op.name \in {"generate_paper_sections", "compile_final_paper"}
   /\ result.raised = "none")
  => ConsensusOf(satisfaction_scores, TARGET_SATISFACTION)

\* C23, as stated: add_agent, called in any state, appends the new agent at
\* the end of the roster keeping the order of the agents already there, sets
\* the new agent's score to 5 and leaves the transcript, the topic and the
\* score of every other agent unchanged.
C23_RegisterFrame ==
  [][ op'.name = "add_agent" =>
        /\ Len(agents') = Len(agents) + 1
        /\ \A i \in DOMAIN agents : agents'[i] = agents[i]
        /\ agents'[Len(agents')].name = op'.agent
        /\ satisfaction_scores'[op'.agent] = NEUTRAL_SCORE
        /\ \A i \in DOMAIN agents :
             satisfaction_scores'[agents[i].name] = satisfaction_scores[agents[i].name]
        /\ discussion_log' = discussion_log
        /\ research_topic' = research_topic
    ]_vars

\* C24: conduct_research_phase on a roster that is not empty assigns every
\* query to the first agent: it appends one research entry per query to the
\* transcript, in query order and all under the first agent's name, adds one
\* note per query to the first agent and none to any other agent, and returns
\* a mapping whose keys are the queries and whose values are the raw
\* retrieval results that the analysis prompts showed, not the analyses.
C24_ResearchByFirstAgent ==
  [][ (op'.name = "conduct_research_phase" /\ agents # <<>>) =>
        LET qs == op'.queries
            base == Len(discussion_log)
            notes == Len(agents[1].research_notes)
        IN  /\ result'.raised = "none"
            /\ Len(gateway') = Len(qs)
            /\ Len(discussion_log') = base + Len(qs)
            /\ Len(agents'[1].research_notes) = notes + Len(qs)
            /\ \A q \in DOMAIN qs :
                 /\ discussion_log'[base + q].type = "research"
                 /\ discussion_log'[base + q].query = qs[q]
                 /\ discussion_log'[base + q].agent = agents[1].name
                 /\ discussion_log'[base + q].analysis = gateway'[q].response
                 /\ gateway'[q].name = agents[1].name
                 /\ Contains(agents'[1].research_notes[notes + q].note, qs[q])
                 /\ Contains(agents'[1].research_notes[notes + q].note,
                             gateway'[q].response)
                 /\ (\A later \in DOMAIN qs : later > q => qs[later] # qs[q]) =>
                      result'.value[qs[q]] = gateway'[q].prompt.results
            /\ DOMAIN result'.value = { qs[q] : q \in DOMAIN qs }
            /\ \A i \in DOMAIN agents :
                 i > 1 => agents'[i].research_notes = agents[i].research_notes
    ]_vars

\* a research of the queries "q" and "k" by a team of two
C24_Witness ==
  /\ op.name = "conduct_research_phase"
  /\ op.queries = << <<"q">>, <<"k">> >>
  /\ Len(agents) = 2
  /\ Len(discussion_log) = 2
  /\ discussion_log[1].query = <<"q">>
  /\ discussion_log[2].query = <<"k">>
  /\ discussion_log[2].agent = <<"A">>
  /\ Len(agents[1].research_notes) = 2
  /\ agents[2].research_notes = <<>>
  /\ DOMAIN result.value = { <<"q">>, <<"k">> }

RECURSIVE SplitLines(_)
\* the lines of a text: the texts between its newline characters, none for
\* the empty text
SplitLines(text) ==
  LET breaks == { j \in DOMAIN text : text[j] = "\n" }
  IN  IF text = <<>> THEN <<>>
      ELSE IF breaks = {} THEN <<text>>
      ELSE LET first == CHOOSE j \in breaks : \A b \in breaks : j <= b
               rest == SubSeq(text, first + 1, Len(text))
           IN  <<SubSeq(text, 1, first - 1)>>
                 \o (IF rest = <<>> THEN << <<>> >> ELSE SplitLines(rest))

\* C25: the history inlined in a prompt of conduct_brainstorm_session holds
\* at most 5 ideas, the most recent of those the call has accumulated when
\* the prompt is built, in their order; no idea of it comes from an earlier
\* call or from a transcript entry of another phase, and the first prompt of
\* a call has an empty history.
C25_BrainstormHistoryOfThisCall ==
  (op.name = "conduct_brainstorm_session" /\ agents # <<>>) =>
    LET n == Len(agents)
        base == Len(discussion_log) - Len(gateway)
        formatted(e) == FormatMessage(e.agent, IF e.type = "research"
                                               THEN e.analysis ELSE e.content)
        own == { result.value[j] : j \in DOMAIN result.value }
    IN  /\ base >= 0
        /\ Len(result.value) = Len(gateway)
        /\ \A k \in DOMAIN gateway :
             LET ideas == SplitLines(gateway[k].prompt.history)
                 accumulated == n * ((k - 1) \div n)
                 oldest == IF accumulated > BRAINSTORM_WINDOW
                           THEN accumulated - BRAINSTORM_WINDOW ELSE 0
             IN  /\ Len(ideas) <= BRAINSTORM_WINDOW
                 /\ Len(ideas) = accumulated - oldest
                 /\ \A j \in DOMAIN ideas : ideas[j] = result.value[oldest + j]
                 /\ \A e \in 1..base : \A j \in DOMAIN ideas :
                      formatted(discussion_log[e]) \notin own
                        => ideas[j] # formatted(discussion_log[e])
                 /\ k = 1 => gateway[k].prompt.history = <<>>

\* the second brainstorm of a session, of two rounds by one agent: its first
\* prompt has no history and its second prompt holds the one idea of its first
\* round, while the transcript also holds the idea of the first brainstorm
C25_Witness ==
  /\ op.name = "conduct_brainstorm_session"
  /\ Len(agents) = 1
  /\ Len(gateway) = 2
  /\ Len(discussion_log) = 3
  /\ discussion_log[1].type = "brainstorm"
  /\ gateway[1].prompt.history = <<>>
  /\ SplitLines(gateway[2].prompt.history) = <<result.value[1]>>
  /\ result.value[1] # FormatMessage(discussion_log[1].agent, discussion_log[1].content)

\* the names of the agents of a roster
NamesOf(roster) == { roster[i].name : i \in DOMAIN roster }

\* C26: every transcript entry names an agent of the roster and has one of
\* the types brainstorm, research, discussion, evaluation: an entry appended
\* by a step names an agent that was in the roster when the step began, and
\* no step removes or renames an agent of the roster.
C26_EntriesNameRosterAgents ==
  [][ /\ Len(agents') >= Len(agents)
      /\ \A i \in DOMAIN agents : agents'[i].name = agents[i].name
      /\ \A e \in DOMAIN discussion_log' :
           /\ discussion_log'[e].agent \in NamesOf(agents')
           /\ e > Len(discussion_log) => discussion_log'[e].agent \in NamesOf(agents)
           /\ discussion_log'[e].type \in
                {"brainstorm", "research", "discussion", "evaluation"}
    ]_vars

\* a transcript with a research entry and a brainstorm entry of the agent A,
\* after a second agent joined the roster
C26_Witness ==
  /\ Len(agents) = 2
  /\ Len(discussion_log) = 2
  /\ discussion_log[1].type = "research"
  /\ discussion_log[2].type = "brainstorm"
  /\ discussion_log[1].agent = agents[1].name
  /\ discussion_log[2].agent = agents[1].name

\* C27: evaluate_satisfaction, check_consensus, trigger_self_improvement and
\* generate_paper_sections leave the transcript as it was; the only
\* operations that lengthen the transcript are conduct_brainstorm_session,
\* conduct_research_phase and structured_discussion, and the transcript never
\* holds an entry of type evaluation.
C27_OnlyContentPhasesAppend ==
  [][ /\ op'.name \in {"evaluate_satisfaction", "check_consensus",
                       "trigger_self_improvement", "generate_paper_sections"}
           => discussion_log' = discussion_log
      /\ Len(discussion_log') > Len(discussion_log)
           => op'.name \in {"conduct_brainstorm_session", "conduct_research_phase",
                            "structured_discussion"}
      /\ \A e \in DOMAIN discussion_log' : discussion_log'[e].type # "evaluation"
    ]_vars

\* an evaluation that rated an agent of a session whose transcript holds an
\* entry
C27_Witness ==
  /\ op.name = "evaluate_satisfaction"
  /\ Len(gateway) > 0
  /\ gateway[1].ok
  /\ Len(discussion_log) > 0

\* C28: a revision whose gateway call fails leaves the agent's system_prompt
\* and improvement_count as they were and reports an error text; every
\* successful revision adds one to improvement_count and nothing else
\* changes it, so that it never decreases and the counts of the roster sum to
\* the number of successful revisions of the session.
C28_FailedRevisionKeepsAgent ==
  [][ /\ op'.name = "trigger_self_improvement" =>
           \A i \in DOMAIN agents :
             /\ ~gateway'[i].ok =>
                  /\ agents'[i].system_prompt = agents[i].system_prompt
                  /\ result'.value[i][2] = [template |-> "improve_error"]
             /\ agents'[i].improvement_count =
                  agents[i].improvement_count + (IF gateway'[i].ok THEN 1 ELSE 0)
      /\ op'.name # "trigger_self_improvement" =>
           \A i \in DOMAIN agents :
             agents'[i].improvement_count = agents[i].improvement_count
      /\ \A i \in DOMAIN agents :
           agents'[i].improvement_count >= agents[i].improvement_count
      /\ (TotalRevisions(Len(agents)) = calls - failures)'
    ]_vars

\* the second revision of an agent failed after its first revision succeeded:
\* the count stays 1 and the prompt stays the text of the first revision
C28_Witness ==
  /\ op.name = "trigger_self_improvement"
  /\ Len(agents) = 1
  /\ ~gateway[1].ok
  /\ calls = 2
  /\ agents[1].improvement_count = 1
  /\ agents[1].system_prompt.template = "text"
  /\ result.value[1][2].template = "improve_error"

\* C29: add_agent under a name that is already in the roster adds a second
\* agent of that name at the end of the roster and sets the name's one entry
\* of satisfaction_scores back to 5, whatever an earlier evaluation had
\* stored; the table then has fewer entries than the roster has agents, as it
\* has after every operation on a roster with a repeated name, and
\* check_consensus takes the mean over the entries of the table, one per name.
C29_DuplicateNameSharesScore ==
  [][ /\ (op'.name = "add_agent" /\ op'.agent \in NamesOf(agents)) =>
           /\ Len(agents') = Len(agents) + 1
           /\ \A i \in DOMAIN agents : agents'[i] = agents[i]
           /\ agents'[Len(agents')].name = op'.agent
           /\ DOMAIN satisfaction_scores' = DOMAIN satisfaction_scores
           /\ satisfaction_scores'[op'.agent] = NEUTRAL_SCORE
           /\ \A k \in DOMAIN satisfaction_scores \ {op'.agent} :
                satisfaction_scores'[k] = satisfaction_scores[k]
      /\ (\E i, j \in DOMAIN agents' : i # j /\ agents'[i].name = agents'[j].name)
           => Cardinality(DOMAIN satisfaction_scores') < Len(agents')
      /\ op'.name = "check_consensus" =>
           result'.value =
             (/\ DOMAIN satisfaction_scores # {}
              /\ Excess(satisfaction_scores, DOMAIN satisfaction_scores,
                        TARGET_SATISFACTION) >= 0)
    ]_vars

\* a second agent A was registered after the first agent A had rated "15":
\* the score 10 of the name A is 5 again
C29_Witness ==
  /\ op.name = "add_agent"
  /\ op.agent = <<"A">>
  /\ Len(agents) = 2
  /\ agents[1].name = <<"A">>
  /\ agents[2].name = <<"A">>
  /\ Len(agents[1].conversation_history) = 1
  /\ agents[1].conversation_history[1].response = <<"1", "5">>
  /\ satisfaction_scores = [k \in { <<"A">> } |-> NEUTRAL_SCORE]

\* the titles of the sections handed to the document generator, in the order
\* of the add_section calls
SectionTitles(latex) ==
  LET added == SelectSeq(latex, LAMBDA c : c.method = "add_section")
  IN  [j \in DOMAIN added |-> added[j].title]

\* C30, as stated: compile_final_paper hands the document generator the
\* roster's names in roster order as authors and exactly three sections in
\* the order Introduction, Methodology, Results and Discussion; the conclusion
\* is generated by the last agent, with one more gateway call and one more
\* record of the agent's conversation history, and is not handed over.
C30_ConclusionRecorded ==
  (op.name = "compile_final_paper" /\ result.raised = "none") =>
    LET n == Len(agents)
        history == agents[n].conversation_history
        last == gateway[Len(gateway)]
    IN  /\ result.latex[1].method = "set_metadata"
        /\ result.latex[1].authors = [i \in DOMAIN agents |-> agents[i].name]
        /\ SectionTitles(result.latex) =
             <<"Introduction", "Methodology", "Results and Discussion">>
        /\ Len(gateway) = 5 + n
        /\ last.prompt.template = "conclusion"
        /\ last.name = agents[n].name
        /\ history # <<>>
        /\ history[Len(history)] = [prompt |-> last.prompt, response |-> last.response]

\* C30, amended: compile_final_paper hands the document generator the
\* roster's names in roster order as authors and exactly three sections in
\* the order Introduction, Methodology, Results and Discussion, holding the
\* texts of the introduction, methodology and results calls; the conclusion is
\* generated by the last agent with one more gateway call, which adds one
\* more record to the agent's conversation history if and only if it
\* succeeds, and the conclusion is not handed over.
C30_ConclusionNotInDocument ==
  [][ (op'.name = "compile_final_paper" /\ agents # <<>>) =>
        LET n == Len(agents)
            latex == result'.latex
            last == gateway'[Len(gateway')]
            before == agents[n].conversation_history
            after == agents'[n].conversation_history
            answered == { k \in DOMAIN gateway' :
                            gateway'[k].name = agents[n].name /\ gateway'[k].ok }
        IN  /\ result'.raised = "none"
            /\ Len(latex) = 5
            /\ latex[1].method = "set_metadata"
            /\ latex[1].authors = [i \in DOMAIN agents |-> agents[i].name]
            /\ SectionTitles(latex) =
                 <<"Introduction", "Methodology", "Results and Discussion">>
            /\ latex[2].content = gateway'[3].response
            /\ \A i \in DOMAIN agents :
                 Contains(latex[3].content, gateway'[3 + i].response)
            /\ latex[4].content = gateway'[4 + n].response
            /\ latex[5].method = "save_to_file"
            /\ Len(gateway') = 5 + n
            /\ last.prompt.template = "conclusion"
            /\ last.name = agents[n].name
            /\ Len(after) = Len(before) + Cardinality(answered)
            /\ IF last.ok
               THEN after[Len(after)] =
                      [prompt |-> last.prompt, response |-> last.response]
               ELSE \A j \in DOMAIN after :
                      j > Len(before) => after[j].prompt.template # "conclusion"
    ]_vars

\* a paper compiled by a team of two whose conclusion call failed: the
\* document got its three sections, and the last record of the second agent is
\* that of the results
C30_Witness ==
  /\ op.name = "compile_final_paper"
  /\ Len(agents) = 2
  /\ Len(gateway) = 7
  /\ ~gateway[7].ok
  /\ Len(result.latex) = 5
  /\ result.latex[1].authors = << <<"A">>, <<"B">> >>
  /\ Len(agents[2].conversation_history) = 3
  /\ agents[2].conversation_history[3].prompt.template = "results"

====
